---- MODULE Spec2Model ----
(***************************************************************************)
(* Model of the AFD class of afd_simulator/core/afd.py: the five fields    *)
(* of the automaton, its mutators, is_valid, evaluate_string, the          *)
(* breadth-first search of generate_accepted_strings, save_to_file and     *)
(* load_from_file; and of the form of gui/afd_editor.py that edits one.    *)
(*                                                                         *)
(* A Python str over the alphabet is a sequence of one-character symbols;  *)
(* the empty str is <<>>.  A dict is a function whose DOMAIN is its key    *)
(* set.  None is the string "None", which is not a state name.             *)
(***************************************************************************)
EXTENDS Integers, Sequences, FiniteSets, TLC

\* ------------------------------------------------------------------ bounds
\* largest max_count passed to generate_accepted_strings
MaxCount == 3
\* longest prefix the search is followed to
MaxDepth == 3
\* longest input passed to evaluate_string
MaxLen == 3

\* ------------------------------------------------------- argument universes
StateNames == {"q0", "q1"}
Symbols == {"0", "1"}
None == "None"

VARIABLES
    states, alphabet, initial_state, accepting_states, transitions,
    pc, op, args, outcome,
    valid,
    input_string, is_accepted, transitions_path, error_message,
    max_count, alphabet_list, queue, visited, accepted_strings, result,
    document, origin, edit, loaded, load_outcome,
    has_afd, states_listbox, alphabet_listbox, initial_var, accepting_listbox,
    transitions_tree,
    errors

fields == <<states, alphabet, initial_state, accepting_states, transitions>>
evalVars == <<input_string, is_accepted, transitions_path, error_message>>
genVars == <<max_count, alphabet_list, queue, visited, accepted_strings, result>>
\* the file read and written by load_from_file and save_to_file, and the AFD
\* load_from_file returns
fileVars == <<document, origin, edit, loaded, load_outcome>>
\* the widgets of the AFDEditor form and whether its current_afd is set
formVars == <<has_afd, states_listbox, alphabet_listbox, initial_var,
              accepting_listbox, transitions_tree>>
vars == <<states, alphabet, initial_state, accepting_states, transitions,
          pc, op, args, outcome, valid,
          input_string, is_accepted, transitions_path, error_message,
          max_count, alphabet_list, queue, visited, accepted_strings, result,
          document, origin, edit, loaded, load_outcome,
          has_afd, states_listbox, alphabet_listbox, initial_var,
          accepting_listbox, transitions_tree, errors>>

\* d.setdefault(k, v): an entry already present is kept
PutIfAbsent(d, k, v) ==
    IF k \in DOMAIN d THEN d
    ELSE [x \in (DOMAIN d) \cup {k} |-> IF x = k THEN v ELSE d[x]]

\* ----------------------------------------------------------------- helpers
\* d[k] = v on a dict
Put(d, k, v) == [x \in (DOMAIN d) \cup {k} |-> IF x = k THEN v ELSE d[x]]

\* d.get(k)
Get(d, k) == IF k \in DOMAIN d THEN d[k] ELSE None

\* the empty dict
EmptyDict == [x \in {} |-> None]

\* lst[:n] for n >= 0
SliceTo(lst, n) == SubSeq(lst, 1, IF n < Len(lst) THEN n ELSE Len(lst))

\* list(a_set): the iteration order of a set of str is not fixed by the
\* language (it follows the per-process string hash), so every ordering of the
\* elements is a possible outcome
ListOfSet(S) ==
    {l \in [1..Cardinality(S) -> S] : \A i, j \in 1..Cardinality(S) : l[i] = l[j] => i = j}

\* all str of length 0..n over the symbols in S
RECURSIVE StringsUpTo(_, _)
StringsUpTo(S, n) ==
    IF n = 0 THEN {<<>>}
    ELSE LET shorter == StringsUpTo(S, n - 1)
         IN shorter \cup {Append(w, a) : w \in shorter, a \in S}

\* the locals of a call that is not running
NoEval ==
    /\ input_string' = <<>>
    /\ is_accepted' = FALSE
    /\ transitions_path' = <<>>
    /\ error_message' = <<>>

\* the list validate_afd_definition returns, outside a call of it
NoValidate == errors' = <<>>

NoGen ==
    /\ max_count' = 0
    /\ alphabet_list' = <<>>
    /\ queue' = <<>>
    /\ visited' = {}
    /\ accepted_strings' = <<>>
    /\ result' = <<>>

Init ==
    /\ states = {}
    /\ alphabet = {}
    /\ initial_state = None
    /\ accepting_states = {}
    /\ transitions = EmptyDict
    /\ pc = "idle"
    /\ op = "__init__"
    /\ args = <<>>
    /\ outcome = "ok"
    /\ valid = FALSE
    /\ input_string = <<>>
    /\ is_accepted = FALSE
    /\ transitions_path = <<>>
    /\ error_message = <<>>
    /\ max_count = 0
    /\ alphabet_list = <<>>
    /\ queue = <<>>
    /\ visited = {}
    /\ accepted_strings = <<>>
    /\ result = <<>>
    /\ document = EmptyDict
    /\ origin = [writer |-> "none", items |-> <<>>]
    /\ edit = <<>>
    /\ loaded = {}
    /\ load_outcome = "none"
    /\ has_afd = FALSE
    /\ states_listbox = <<>>
    /\ alphabet_listbox = <<>>
    /\ initial_var = ""
    /\ accepting_listbox = <<>>
    /\ transitions_tree = <<>>
    /\ errors = <<>>

\* ---------------------------------------------------------------- mutators
AddState(state) ==
    /\ pc = "idle"
    /\ states' = states \cup {state}
    /\ UNCHANGED <<alphabet, initial_state, accepting_states, transitions>>
    /\ op' = "add_state" /\ args' = <<state>> /\ outcome' = "ok"
    /\ valid' = FALSE /\ NoEval /\ NoGen /\ NoValidate /\ UNCHANGED pc
    /\ UNCHANGED <<fileVars, formVars>>

AddSymbol(symbol) ==
    /\ pc = "idle"
    /\ alphabet' = alphabet \cup {symbol}
    /\ UNCHANGED <<states, initial_state, accepting_states, transitions>>
    /\ op' = "add_symbol" /\ args' = <<symbol>> /\ outcome' = "ok"
    /\ valid' = FALSE /\ NoEval /\ NoGen /\ NoValidate /\ UNCHANGED pc
    /\ UNCHANGED <<fileVars, formVars>>

SetInitialStateAssignFirst(state) ==
    /\ pc = "idle"
    /\ initial_state' = state
    /\ outcome' = IF state \notin states THEN "ValueError" ELSE "ok"
    /\ UNCHANGED <<states, alphabet, accepting_states, transitions>>
    /\ op' = "set_initial_state" /\ args' = <<state>>
    /\ valid' = FALSE /\ NoEval /\ NoGen /\ NoValidate /\ UNCHANGED pc
    /\ UNCHANGED <<fileVars, formVars>>

SetInitialState(state) ==
    /\ pc = "idle"
    /\ IF state \notin states
       THEN outcome' = "ValueError" /\ UNCHANGED initial_state
       ELSE outcome' = "ok" /\ initial_state' = state
    /\ UNCHANGED <<states, alphabet, accepting_states, transitions>>
    /\ op' = "set_initial_state" /\ args' = <<state>>
    /\ valid' = FALSE /\ NoEval /\ NoGen /\ NoValidate /\ UNCHANGED pc
    /\ UNCHANGED <<fileVars, formVars>>

AddAcceptingState(state) ==
    /\ pc = "idle"
    /\ IF state \notin states
       THEN outcome' = "ValueError" /\ UNCHANGED accepting_states
       ELSE outcome' = "ok" /\ accepting_states' = accepting_states \cup {state}
    /\ UNCHANGED <<states, alphabet, initial_state, transitions>>
    /\ op' = "add_accepting_state" /\ args' = <<state>>
    /\ valid' = FALSE /\ NoEval /\ NoGen /\ NoValidate /\ UNCHANGED pc
    /\ UNCHANGED <<fileVars, formVars>>

AddTransitionRaisesNoTargetCheck(from_state, symbol, to_state) ==
    \/ from_state \notin states
    \/ symbol \notin alphabet

\* the three checks of add_transition, any of which raises ValueError
AddTransitionRaises(from_state, symbol, to_state) ==
    \/ from_state \notin states
    \/ to_state \notin states
    \/ symbol \notin alphabet

AddTransition(from_state, symbol, to_state) ==
    /\ pc = "idle"
    /\ IF AddTransitionRaises(from_state, symbol, to_state)
       THEN outcome' = "ValueError" /\ UNCHANGED transitions
       ELSE /\ outcome' = "ok"
            /\ transitions' = Put(transitions, <<from_state, symbol>>, to_state)
    /\ UNCHANGED <<states, alphabet, initial_state, accepting_states>>
    /\ op' = "add_transition" /\ args' = <<from_state, symbol, to_state>>
    /\ valid' = FALSE /\ NoEval /\ NoGen /\ NoValidate /\ UNCHANGED pc
    /\ UNCHANGED <<fileVars, formVars>>

\* ----------------------------------------------------------------- is_valid
IsValidNoAlphabetCheck ==
    IF states = {} THEN FALSE
    ELSE IF initial_state = None THEN FALSE
    ELSE IF initial_state \notin states THEN FALSE
    ELSE IF ~(accepting_states \subseteq states) THEN FALSE
    ELSE IF \E state \in states, symbol \in alphabet :
                <<state, symbol>> \notin DOMAIN transitions THEN FALSE
    ELSE TRUE

\* is_valid without the return on an initial state that is not a state
IsValidNoInitialMembershipCheck ==
    IF states = {} THEN FALSE
    ELSE IF alphabet = {} THEN FALSE
    ELSE IF initial_state = None THEN FALSE
    ELSE IF ~(accepting_states \subseteq states) THEN FALSE
    ELSE IF \E state \in states, symbol \in alphabet :
                <<state, symbol>> \notin DOMAIN transitions THEN FALSE
    ELSE TRUE

\* is_valid(): the early returns in the order of the code, then the scan of
\* every (state, symbol) pair
IsValid ==
    IF states = {} THEN FALSE
    ELSE IF alphabet = {} THEN FALSE
    ELSE IF initial_state = None THEN FALSE
    ELSE IF initial_state \notin states THEN FALSE
    ELSE IF ~(accepting_states \subseteq states) THEN FALSE
    ELSE IF \E state \in states, symbol \in alphabet :
                <<state, symbol>> \notin DOMAIN transitions THEN FALSE
    ELSE TRUE

IsValidCall ==
    /\ pc = "idle"
    /\ valid' = IsValid
    /\ op' = "is_valid" /\ args' = <<>> /\ outcome' = "ok"
    /\ NoEval /\ NoGen /\ NoValidate /\ UNCHANGED <<fields, pc>>
    /\ UNCHANGED <<fileVars, formVars>>

\* ---------------------------------------------------------- evaluate_string
\* the exception raised at each raise statement of evaluate_string: its class
\* and its message (the text, then the values formatted into it)
NotValidError ==
    [kind |-> "ValueError", message |-> <<"El AFD no esta correctamente definido">>]

UnknownSymbolError(symbol) ==
    [kind |-> "ValueError", message |-> <<"El simbolo no esta en el alfabeto", symbol>>]

NoTransitionError(state, symbol) ==
    [kind |-> "ValueError",
     message |-> <<"No hay transicion definida para el estado con el simbolo",
                   state, symbol>>]

\* what the call leaves behind when it raises error after building path
Raise(error, path) ==
    [raised |-> TRUE, kind |-> error.kind, message |-> error.message,
     is_accepted |-> FALSE, transitions_path |-> path]

\* the simulation loop from position i of input, in current_state, with the
\* path built so far
RECURSIVE Simulate(_, _, _, _)
SimulateNoAdvance(input, i, current_state, path) ==
    IF i > Len(input)
    THEN [raised |-> FALSE, kind |-> "ok", message |-> <<>>,
          is_accepted |-> current_state \in accepting_states,
          transitions_path |-> path]
    ELSE LET next_state == Get(transitions, <<current_state, input[i]>>)
         IN IF next_state = None
            THEN Raise(NoTransitionError(current_state, input[i]), path)
            ELSE Simulate(input, i + 1, current_state,
                          Append(path, <<current_state, input[i], next_state>>))

\* the loop with transitions_path.insert(0, ...) in place of append
SimulatePrependsPath(input, i, current_state, path) ==
    IF i > Len(input)
    THEN [raised |-> FALSE, kind |-> "ok", message |-> <<>>,
          is_accepted |-> current_state \in accepting_states,
          transitions_path |-> path]
    ELSE LET next_state == Get(transitions, <<current_state, input[i]>>)
         IN IF next_state = None
            THEN Raise(NoTransitionError(current_state, input[i]), path)
            ELSE Simulate(input, i + 1, next_state,
                          <<(<<current_state, input[i], next_state>>)>> \o path)

Simulate(input, i, current_state, path) ==
    IF i > Len(input)
    THEN [raised |-> FALSE, kind |-> "ok", message |-> <<>>,
          is_accepted |-> current_state \in accepting_states,
          transitions_path |-> path]
    ELSE LET next_state == Get(transitions, <<current_state, input[i]>>)
         IN IF next_state = None
            THEN Raise(NoTransitionError(current_state, input[i]), path)
            ELSE Simulate(input, i + 1, next_state,
                          Append(path, <<current_state, input[i], next_state>>))

\* the first symbol of input that is not in the alphabet, found by the for
\* loop that precedes the simulation
FirstUnknownSymbol(input) ==
    LET bad == {i \in 1..Len(input) : input[i] \notin alphabet}
    IN input[CHOOSE i \in bad : \A k \in bad : i <= k]

EvaluateStringNoSymbolCheck(input) ==
    IF ~IsValid
    THEN Raise(NotValidError, <<>>)
    ELSE Simulate(input, 1, initial_state, <<>>)

EvaluateStringSymbolCheckFirst(input) ==
    IF \E i \in 1..Len(input) : input[i] \notin alphabet
    THEN Raise(UnknownSymbolError(FirstUnknownSymbol(input)), <<>>)
    ELSE IF ~IsValid
    THEN Raise(NotValidError, <<>>)
    ELSE Simulate(input, 1, initial_state, <<>>)

\* evaluate_string(input): the two checks made up front, then the simulation
EvaluateString(input) ==
    IF ~IsValid
    THEN Raise(NotValidError, <<>>)
    ELSE IF \E i \in 1..Len(input) : input[i] \notin alphabet
    THEN Raise(UnknownSymbolError(FirstUnknownSymbol(input)), <<>>)
    ELSE Simulate(input, 1, initial_state, <<>>)

EvaluateStringCall(input) ==
    /\ pc = "idle"
    /\ LET r == EvaluateString(input)
       IN /\ outcome' = r.kind
          /\ error_message' = r.message
          /\ is_accepted' = r.is_accepted
          /\ transitions_path' = r.transitions_path
    /\ input_string' = input
    /\ op' = "evaluate_string" /\ args' = <<>>
    /\ valid' = FALSE /\ NoGen /\ NoValidate /\ UNCHANGED <<fields, pc>>
    /\ UNCHANGED <<fileVars, formVars>>

\* ------------------------------------------------ generate_accepted_strings
\* the for loop over alphabet_list: one queue entry per symbol that has a
\* transition from current_state, in the order of alphabet_list
Successors(current_string, current_state, alist) ==
    LET defined == SelectSeq(alist,
                       LAMBDA symbol : Get(transitions, <<current_state, symbol>>) # None)
    IN [k \in 1..Len(defined) |->
           <<Append(current_string, defined[k]),
             transitions[<<current_state, defined[k]>>]>>]

LoopBodyNoAcceptingCheck(q, v, acc, alist) ==
    LET current_string == Head(q)[1]
        current_state == Head(q)[2]
        rest == Tail(q)
        state_length_key == <<current_state, Len(current_string)>>
    IN IF state_length_key \in v
       THEN [queue |-> rest, visited |-> v, accepted_strings |-> acc]
       ELSE [queue |-> rest \o Successors(current_string, current_state, alist),
             visited |-> v \cup {state_length_key},
             accepted_strings |->
                 IF current_string # <<>>
                 THEN Append(acc, current_string)
                 ELSE acc]

LoopBodyCollectTwice(q, v, acc, alist) ==
    LET current_string == Head(q)[1]
        current_state == Head(q)[2]
        rest == Tail(q)
        state_length_key == <<current_state, Len(current_string)>>
        successors == Successors(current_string, current_state, alist)
        popped == IF current_state \in accepting_states /\ current_string # <<>>
                  THEN Append(acc, current_string)
                  ELSE acc
        pushed == SelectSeq(successors, LAMBDA e : e[2] \in accepting_states)
    IN IF state_length_key \in v
       THEN [queue |-> rest, visited |-> v, accepted_strings |-> acc]
       ELSE [queue |-> rest \o successors,
             visited |-> v \cup {state_length_key},
             accepted_strings |->
                 popped \o [k \in 1..Len(pushed) |-> pushed[k][1]]]

\* the loop body without "and current_string"
LoopBodyCollectsEmpty(q, v, acc, alist) ==
    LET current_string == Head(q)[1]
        current_state == Head(q)[2]
        rest == Tail(q)
        state_length_key == <<current_state, Len(current_string)>>
    IN IF state_length_key \in v
       THEN [queue |-> rest, visited |-> v, accepted_strings |-> acc]
       ELSE [queue |-> rest \o Successors(current_string, current_state, alist),
             visited |-> v \cup {state_length_key},
             accepted_strings |->
                 IF current_state \in accepting_states
                 THEN Append(acc, current_string)
                 ELSE acc]

\* the loop body without the visited set
LoopBodyNoVisitedCheck(q, v, acc, alist) ==
    LET current_string == Head(q)[1]
        current_state == Head(q)[2]
        rest == Tail(q)
    IN [queue |-> rest \o Successors(current_string, current_state, alist),
        visited |-> v,
        accepted_strings |->
            IF current_state \in accepting_states /\ current_string # <<>>
            THEN Append(acc, current_string)
            ELSE acc]

\* one iteration of the while loop on queue q, visited set v and the accepted
\* strings acc: pop the head, skip it if its (state, length) key was visited,
\* otherwise mark it, collect it if accepting and non-empty, enqueue successors
LoopBody(q, v, acc, alist) ==
    LET current_string == Head(q)[1]
        current_state == Head(q)[2]
        rest == Tail(q)
        state_length_key == <<current_state, Len(current_string)>>
    IN IF state_length_key \in v
       THEN [queue |-> rest, visited |-> v, accepted_strings |-> acc]
       ELSE [queue |-> rest \o Successors(current_string, current_state, alist),
             visited |-> v \cup {state_length_key},
             accepted_strings |->
                 IF current_state \in accepting_states /\ current_string # <<>>
                 THEN Append(acc, current_string)
                 ELSE acc]

\* the condition of the while loop
LoopCondition(q, acc, n) == q # <<>> /\ Len(acc) < n

\* the call up to the loop: the validity check, then the locals
GenerateStart(n, alist) ==
    /\ pc = "idle"
    /\ alist \in ListOfSet(alphabet)
    /\ IF ~IsValid
       THEN /\ outcome' = "ValueError"
            /\ NoGen
            /\ UNCHANGED pc
       ELSE /\ outcome' = "running"
            /\ pc' = "generate"
            /\ max_count' = n
            /\ alphabet_list' = alist
            /\ queue' = << <<(<<>>), initial_state>> >>
            /\ visited' = {}
            /\ accepted_strings' = <<>>
            /\ result' = <<>>
    /\ op' = "generate_accepted_strings" /\ args' = <<>>
    /\ valid' = FALSE /\ NoEval /\ NoValidate /\ UNCHANGED fields
    /\ UNCHANGED <<fileVars, formVars>>

\* one iteration of the while loop; the search is followed while the popped
\* prefix is no longer than MaxDepth
GenerateLoop ==
    /\ pc = "generate"
    /\ LoopCondition(queue, accepted_strings, max_count)
    /\ Len(Head(queue)[1]) <= MaxDepth
    /\ LET next == LoopBody(queue, visited, accepted_strings, alphabet_list)
       IN /\ queue' = next.queue
          /\ visited' = next.visited
          /\ accepted_strings' = next.accepted_strings
    /\ UNCHANGED <<fields, pc, op, args, outcome, valid, evalVars,
                   max_count, alphabet_list, result, errors>>
    /\ UNCHANGED <<fileVars, formVars>>

\* the loop has ended: return accepted_strings[:max_count]
GenerateReturn ==
    /\ pc = "generate"
    /\ ~LoopCondition(queue, accepted_strings, max_count)
    /\ result' = SliceTo(accepted_strings, max_count)
    /\ pc' = "idle"
    /\ outcome' = "ok"
    /\ queue' = <<>> /\ visited' = {} /\ accepted_strings' = <<>>
    /\ UNCHANGED <<fields, op, args, valid, evalVars, max_count, alphabet_list, errors>>
    /\ UNCHANGED <<fileVars, formVars>>

\* the whole call as a function of the iteration order and the limit, followed
\* to the same depth as GenerateLoop
RECURSIVE Search(_, _, _, _, _)
Search(q, v, acc, alist, n) ==
    IF ~LoopCondition(q, acc, n)
    THEN [returned |-> TRUE, value |-> SliceTo(acc, n)]
    ELSE IF Len(Head(q)[1]) > MaxDepth
    THEN [returned |-> FALSE, value |-> <<>>]
    ELSE LET next == LoopBody(q, v, acc, alist)
         IN Search(next.queue, next.visited, next.accepted_strings, alist, n)

GenerateAcceptedStrings(alist, n) ==
    Search(<< <<(<<>>), initial_state>> >>, {}, <<>>, alist, n)

\* ------------------------------------------------------------ specification
Next ==
    \/ \E state \in StateNames : AddState(state)
    \/ \E symbol \in Symbols : AddSymbol(symbol)
    \/ \E state \in StateNames : SetInitialState(state)
    \/ \E state \in StateNames : AddAcceptingState(state)
    \/ \E from_state \in StateNames, symbol \in Symbols, to_state \in StateNames :
           AddTransition(from_state, symbol, to_state)
    \/ IsValidCall
    \/ \E input \in StringsUpTo(Symbols, MaxLen) : EvaluateStringCall(input)
    \/ \E n \in 0..MaxCount, alist \in ListOfSet(alphabet) : GenerateStart(n, alist)
    \/ GenerateLoop
    \/ GenerateReturn

Spec == Init /\ [][Next]_vars

\* the interpreter runs a started call to its end
FairSpec == Spec /\ WF_vars(GenerateLoop) /\ WF_vars(GenerateReturn)

\* ------------------------------------------- save_to_file / load_from_file
\* names used where a file is written and read back: a state name and a
\* symbol that contain the separator of the old transition keys
CodecStateNames == {"q0", "q,1"}
CodecSymbols == {"0", ","}

\* the characters of a Python str
Chars(s) ==
    CASE s = "" -> <<>>
      [] s = "0" -> <<"0">>
      [] s = "1" -> <<"1">>
      [] s = "," -> <<",">>
      [] s = "q0" -> <<"q", "0">>
      [] s = "q1" -> <<"q", "1">>
      [] s = "q,1" -> <<"q", ",", "1">>
      [] s = "q0," -> <<"q", "0", ",">>
      [] s = "q,1," -> <<"q", ",", "1", ",">>

SlicedNames == {"", "0", "1", ",", "q0", "q1", "q,1", "q0,", "q,1,"}

\* the Python str made of the characters cs; a str that is no name, symbol
\* or slice of a written key is "?"
Str(cs) ==
    IF \E s \in SlicedNames : Chars(s) = cs
    THEN CHOOSE s \in SlicedNames : Chars(s) = cs
    ELSE "?"

\* str.rfind(','), counted from 1; 0 where Python returns -1
RFind(cs, c) ==
    IF \E i \in 1..Len(cs) : cs[i] = c
    THEN CHOOSE i \in 1..Len(cs) : cs[i] = c /\ \A j \in (i + 1)..Len(cs) : cs[j] # c
    ELSE 0

Range(lst) == {lst[i] : i \in DOMAIN lst}

\* f"{from_state},{symbol}"
LegacyKey(from_state, symbol) == Chars(from_state) \o <<",">> \o Chars(symbol)

\* transitions_list of save_to_file, the dict being iterated in the order keys
TransitionsList(keys) ==
    [i \in 1..Len(keys) |->
        [from_state |-> keys[i][1], symbol |-> keys[i][2],
         to_state |-> transitions[keys[i]]]]

\* the dict comprehension of the old save_to_file, as its items in order
TransitionsMap(keys) ==
    [i \in 1..Len(keys) |->
        <<LegacyKey(keys[i][1], keys[i][2]), transitions[keys[i]]>>]

AfdData(states_list, symbols_list, accepting_list, encoding, entries) ==
    [states |-> states_list,
     alphabet |-> symbols_list,
     initial_state |-> initial_state,
     accepting_states |-> accepting_list,
     transitions |-> [encoding |-> encoding, entries |-> entries]]

\* origin keeps which save_to_file wrote the file and the order in which it
\* iterated self.transitions.items()
WriteFile(afd_data, writer, keys) ==
    /\ pc = "idle"
    /\ document' = afd_data
    /\ origin' = [writer |-> writer, items |-> keys]
    /\ edit' = <<>>
    /\ loaded' = {}
    /\ load_outcome' = "none"
    /\ pc' = "written"
    /\ op' = writer /\ args' = <<>> /\ outcome' = "ok"
    /\ valid' = FALSE /\ NoEval /\ NoGen /\ NoValidate
    /\ UNCHANGED <<fields, formVars>>

\* AFD.save_to_file of afd_simulator/core/afd.py
SaveToFile(states_list, symbols_list, accepting_list, keys) ==
    WriteFile(AfdData(states_list, symbols_list, accepting_list,
                      "list", TransitionsList(keys)), "save_to_file", keys)

\* AFD.save_to_file of src/afd.py, which writes the old transition keys
LegacySaveToFile(states_list, symbols_list, accepting_list, keys) ==
    WriteFile(AfdData(states_list, symbols_list, accepting_list,
                      "map", TransitionsMap(keys)), "legacy_save_to_file", keys)

\* a file that lacks one top-level field of a written one
RemoveDocumentField(field) ==
    /\ pc = "written" /\ edit = <<>>
    /\ field \in DOMAIN document
    /\ document' = [f \in (DOMAIN document) \ {field} |-> document[f]]
    /\ edit' = <<"remove_field", field>>
    /\ UNCHANGED <<fields, pc, op, args, outcome, valid, evalVars, genVars, errors,
                   origin, loaded, load_outcome, formVars>>

WithoutComma(cs) == SelectSeq(cs, LAMBDA c : c # ",")

\* a file one of whose old transition keys has no comma
StripCommaFromKey(i) ==
    /\ pc = "written" /\ edit = <<>>
    /\ document.transitions.encoding = "map"
    /\ i \in 1..Len(document.transitions.entries)
    /\ document' = [document EXCEPT !.transitions.entries[i][1] = WithoutComma(@)]
    /\ edit' = <<"strip_comma", i>>
    /\ UNCHANGED <<fields, pc, op, args, outcome, valid, evalVars, genVars, errors,
                   origin, loaded, load_outcome, formVars>>

\* the five fields of an AFD object, as one value
Model ==
    [states |-> states, alphabet |-> alphabet, initial_state |-> initial_state,
     accepting_states |-> accepting_states, transitions |-> transitions]

\* an AFD class whose five attributes are class attributes: a new object
\* shares the sets and the dict of the one before it
NewAFDSharesAttributes == Model

\* cls(): the AFD a load starts from
NewAFD ==
    [states |-> {}, alphabet |-> {}, initial_state |-> None,
     accepting_states |-> {}, transitions |-> EmptyDict]

\* a load in progress: the AFD built so far, or the exception that ended it
Loading(afd) == [kind |-> "ok", afd |-> afd]
LoadRaises(kind) == [kind |-> kind, afd |-> NewAFD]

\* afd_data[field] of a dict without the field
MissingField(r, afd_data, field) == r.kind = "ok" /\ field \notin DOMAIN afd_data

LoadStates(r, afd_data) ==
    IF r.kind # "ok" THEN r
    ELSE IF MissingField(r, afd_data, "states") THEN LoadRaises("KeyError")
    ELSE Loading([r.afd EXCEPT !.states = @ \cup Range(afd_data.states)])

LoadAlphabet(r, afd_data) ==
    IF r.kind # "ok" THEN r
    ELSE IF MissingField(r, afd_data, "alphabet") THEN LoadRaises("KeyError")
    ELSE Loading([r.afd EXCEPT !.alphabet = @ \cup Range(afd_data.alphabet)])

\* the old loader: set_initial_state is called with whatever the file holds
LoadInitialStateAlwaysSet(r, afd_data) ==
    IF r.kind # "ok" THEN r
    ELSE IF MissingField(r, afd_data, "initial_state") THEN LoadRaises("KeyError")
    ELSE IF afd_data.initial_state \notin r.afd.states THEN LoadRaises("ValueError")
    ELSE Loading([r.afd EXCEPT !.initial_state = afd_data.initial_state])

LoadInitialState(r, afd_data) ==
    IF r.kind # "ok" THEN r
    ELSE IF MissingField(r, afd_data, "initial_state") THEN LoadRaises("KeyError")
    ELSE IF afd_data.initial_state = None THEN r
    ELSE IF afd_data.initial_state \notin r.afd.states THEN LoadRaises("ValueError")
    ELSE Loading([r.afd EXCEPT !.initial_state = afd_data.initial_state])

LoadAcceptingStates(r, afd_data) ==
    IF r.kind # "ok" THEN r
    ELSE IF MissingField(r, afd_data, "accepting_states") THEN LoadRaises("KeyError")
    ELSE IF \E state \in Range(afd_data.accepting_states) : state \notin r.afd.states
    THEN LoadRaises("ValueError")
    ELSE Loading([r.afd EXCEPT !.accepting_states =
                      @ \cup Range(afd_data.accepting_states)])

\* afd.add_transition on the AFD being loaded
LoadAddTransition(r, from_state, symbol, to_state) ==
    IF r.kind # "ok" THEN r
    ELSE IF \/ from_state \notin r.afd.states
            \/ to_state \notin r.afd.states
            \/ symbol \notin r.afd.alphabet
    THEN LoadRaises("ValueError")
    ELSE Loading([r.afd EXCEPT !.transitions = Put(@, <<from_state, symbol>>, to_state)])

\* one item of the old dict: the key is cut at its last comma
LoadLegacyItem(r, item) ==
    LET transition_key == item[1]
        last_comma_index == RFind(transition_key, ",")
    IN IF r.kind # "ok" THEN r
       ELSE IF last_comma_index = 0 THEN LoadRaises("ValueError")
       ELSE LoadAddTransition(r,
                Str(SubSeq(transition_key, 1, last_comma_index - 1)),
                Str(SubSeq(transition_key, last_comma_index + 1, Len(transition_key))),
                item[2])

LoadListItem(r, transition) ==
    LoadAddTransition(r, transition.from_state, transition.symbol, transition.to_state)

RECURSIVE LoadEntries(_, _, _, _)
LoadEntries(r, encoding, entries, i) ==
    IF i > Len(entries) THEN r
    ELSE LoadEntries(IF encoding = "list" THEN LoadListItem(r, entries[i])
                     ELSE LoadLegacyItem(r, entries[i]),
                     encoding, entries, i + 1)

LoadTransitions(r, afd_data) ==
    IF r.kind # "ok" THEN r
    ELSE IF MissingField(r, afd_data, "transitions") THEN LoadRaises("KeyError")
    ELSE LoadEntries(r, afd_data.transitions.encoding,
                     afd_data.transitions.entries, 1)

\* AFD.load_from_file on the parsed file afd_data
LoadFromFile(afd_data) ==
    LoadTransitions(
        LoadAcceptingStates(
            LoadInitialState(
                LoadAlphabet(
                    LoadStates(Loading(NewAFD), afd_data),
                    afd_data),
                afd_data),
            afd_data),
        afd_data)

LoadFromFileCall ==
    /\ pc = "written"
    /\ LET r == LoadFromFile(document)
       IN /\ load_outcome' = r.kind
          /\ loaded' = IF r.kind = "ok" THEN {r.afd} ELSE {}
          /\ outcome' = r.kind
    /\ pc' = "loaded"
    /\ op' = "load_from_file" /\ args' = <<>>
    /\ valid' = FALSE /\ NoEval /\ NoGen /\ NoValidate
    /\ UNCHANGED <<fields, document, origin, edit, formVars>>

\* the orders in which list(self.states), list(self.alphabet),
\* list(self.accepting_states) and self.transitions.items() may iterate
IterationOrders ==
    ListOfSet(states) \X ListOfSet(alphabet) \X ListOfSet(accepting_states)
        \X ListOfSet(DOMAIN transitions)

CodecNext ==
    \/ \E state \in CodecStateNames : AddState(state)
    \/ \E symbol \in CodecSymbols : AddSymbol(symbol)
    \/ \E state \in CodecStateNames : SetInitialState(state)
    \/ \E state \in CodecStateNames : AddAcceptingState(state)
    \/ \E from_state \in CodecStateNames, symbol \in CodecSymbols,
          to_state \in CodecStateNames :
           AddTransition(from_state, symbol, to_state)
    \/ /\ pc = "idle"
       /\ \E order \in IterationOrders :
              SaveToFile(order[1], order[2], order[3], order[4])
    \/ /\ pc = "idle"
       /\ \E order \in IterationOrders :
              LegacySaveToFile(order[1], order[2], order[3], order[4])
    \/ \E field \in {"states", "alphabet", "initial_state", "accepting_states",
                     "transitions"} : RemoveDocumentField(field)
    \/ \E i \in 1..4 : StripCommaFromKey(i)
    \/ LoadFromFileCall

\* an AFD built with the mutators, written to a file, the file possibly
\* replaced by a damaged one, and read back
CodecSpec == Init /\ [][CodecNext]_vars

\* ------------------------------------------ load_from_file of src/afd.py
\* afd.set_initial_state(afd_data["initial_state"]), whatever the file holds:
\* the null of an unset initial state is not among the states
LegacyLoadInitialState(r, afd_data) ==
    IF r.kind # "ok" THEN r
    ELSE IF MissingField(r, afd_data, "initial_state") THEN LoadRaises("KeyError")
    ELSE IF afd_data.initial_state \notin r.afd.states THEN LoadRaises("ValueError")
    ELSE Loading([r.afd EXCEPT !.initial_state = afd_data.initial_state])

\* the index of the first c in cs, 0 if there is none
Find(cs, c) ==
    IF \E i \in 1..Len(cs) : cs[i] = c
    THEN CHOOSE i \in 1..Len(cs) : cs[i] = c /\ \A j \in 1..(i - 1) : cs[j] # c
    ELSE 0

\* len(transition_key.split(','))
SplitCount(cs) == Len(SelectSeq(cs, LAMBDA c : c = ",")) + 1

\* from_state, symbol = transition_key.split(','): the unpacking raises
\* ValueError unless the key has exactly one comma
LegacyLoadItem(r, item) ==
    LET transition_key == item[1]
        comma_index == Find(transition_key, ",")
    IN IF r.kind # "ok" THEN r
       ELSE IF SplitCount(transition_key) # 2 THEN LoadRaises("ValueError")
       ELSE LoadAddTransition(r,
                Str(SubSeq(transition_key, 1, comma_index - 1)),
                Str(SubSeq(transition_key, comma_index + 1, Len(transition_key))),
                item[2])

RECURSIVE LegacyLoadEntries(_, _, _)
LegacyLoadEntries(r, entries, i) ==
    IF i > Len(entries) THEN r
    ELSE LegacyLoadEntries(LegacyLoadItem(r, entries[i]), entries, i + 1)

\* afd_data["transitions"].items(): a list has no items
LegacyLoadTransitions(r, afd_data) ==
    IF r.kind # "ok" THEN r
    ELSE IF MissingField(r, afd_data, "transitions") THEN LoadRaises("KeyError")
    ELSE IF afd_data.transitions.encoding # "map" THEN LoadRaises("AttributeError")
    ELSE LegacyLoadEntries(r, afd_data.transitions.entries, 1)

\* AFD.load_from_file of src/afd.py on the parsed file afd_data
LegacyLoadFromFile(afd_data) ==
    LegacyLoadTransitions(
        LoadAcceptingStates(
            LegacyLoadInitialState(
                LoadAlphabet(
                    LoadStates(Loading(NewAFD), afd_data),
                    afd_data),
                afd_data),
            afd_data),
        afd_data)

LegacyLoadFromFileCall ==
    /\ pc = "written"
    /\ LET r == LegacyLoadFromFile(document)
       IN /\ load_outcome' = r.kind
          /\ loaded' = IF r.kind = "ok" THEN {r.afd} ELSE {}
          /\ outcome' = r.kind
    /\ pc' = "loaded"
    /\ op' = "legacy_load_from_file" /\ args' = <<>>
    /\ valid' = FALSE /\ NoEval /\ NoGen /\ NoValidate
    /\ UNCHANGED <<fields, document, origin, edit, formVars>>

LegacyCodecNext ==
    \/ \E state \in CodecStateNames : AddState(state)
    \/ \E symbol \in CodecSymbols : AddSymbol(symbol)
    \/ \E state \in CodecStateNames : SetInitialState(state)
    \/ \E state \in CodecStateNames : AddAcceptingState(state)
    \/ \E from_state \in CodecStateNames, symbol \in CodecSymbols,
          to_state \in CodecStateNames :
           AddTransition(from_state, symbol, to_state)
    \/ /\ pc = "idle"
       /\ \E order \in IterationOrders :
              LegacySaveToFile(order[1], order[2], order[3], order[4])
    \/ LegacyLoadFromFileCall

\* an AFD of src/afd.py built with its mutators, written to a file and read
\* back by the same class
LegacyCodecSpec == Init /\ [][LegacyCodecNext]_vars

\* ---------------------------------------------------------------- AFDEditor
\* The form of gui/afd_editor.py.  A Listbox and the Treeview are the
\* sequences of their rows; fields are the fields of editor.current_afd,
\* those of an empty AFD while current_afd is None.  A selection in a Listbox
\* or a read-only Combobox is an input of the handler that reads it: what a
\* Combobox holds may name a row removed since it was picked.
\* most names typed into an entry field before its button is pressed
MaxTyped == 2
EditorSymbols == {"0"}
\* what the user may type, one name of it refused by the validators
TypedStateNames == StateNames \cup {"q,1"}
TypedSymbols == EditorSymbols \cup {","}

\* text.split() of a non-empty entry
Entries(names) == StringsUpTo(names, MaxTyped) \ {<<>>}

\* the characters validate_state_name and validate_symbol refuse
InvalidChars == {" ", ",", ";", ":", "\"", "'"}

ValidateStateName(state_name) ==
    /\ Chars(state_name) # <<>>
    /\ \A i \in DOMAIN Chars(state_name) : Chars(state_name)[i] \notin InvalidChars

ValidateSymbol(symbol) ==
    /\ Len(Chars(symbol)) = 1
    /\ \A i \in DOMAIN Chars(symbol) : Chars(symbol)[i] \notin InvalidChars

\* the names of names_list that pass and are not yet rows of listbox
RECURSIVE ValidNames(_, _, _)
ValidNames(names_list, listbox, i) ==
    IF i > Len(names_list) THEN <<>>
    ELSE (IF names_list[i] \notin Range(listbox) THEN <<names_list[i]>> ELSE <<>>)
             \o ValidNames(names_list, listbox, i + 1)

\* listbox.delete(i) and tree.delete(item)
DeleteRow(rows, i) == SubSeq(rows, 1, i - 1) \o SubSeq(rows, i + 1, Len(rows))

\* update_afd: the object the form is written into
CurrentAfd == IF has_afd THEN Model ELSE NewAFD

\* update_afd: initial_state is assigned only where initial_var names a
\* state of the form; it is not among the fields cleared first
UpdateInitialState(old_initial_state, initial, new_states) ==
    IF initial # "" /\ initial \in new_states THEN initial ELSE old_initial_state

UpdateAcceptingStates(rows, new_states) == {state \in Range(rows) : state \in new_states}

RECURSIVE AddRows(_, _, _, _, _)
AddRows(d, rows, i, new_states, new_alphabet) ==
    IF i > Len(rows) THEN d
    ELSE AddRows(IF /\ rows[i][1] \in new_states
                    /\ rows[i][2] \in new_alphabet
                    /\ rows[i][3] \in new_states
                 THEN Put(d, <<rows[i][1], rows[i][2]>>, rows[i][3])
                 ELSE d,
                 rows, i + 1, new_states, new_alphabet)

\* update_afd without self.current_afd.transitions.clear()
UpdateTransitionsNoClear(old_transitions, rows, new_states, new_alphabet) ==
    AddRows(old_transitions, rows, 1, new_states, new_alphabet)

\* update_afd: transitions.clear(), then the rows of the tree whose states and
\* symbol are in the form
UpdateTransitions(old_transitions, rows, new_states, new_alphabet) ==
    AddRows(EmptyDict, rows, 1, new_states, new_alphabet)

\* update_afd on the form as the handler leaves it, then update_summary,
\* whose str(current_afd) calls is_valid
UpdateAfd ==
    /\ has_afd' = TRUE
    /\ states' = Range(states_listbox') \ {""}
    /\ alphabet' = Range(alphabet_listbox') \ {""}
    /\ initial_state' = UpdateInitialState(CurrentAfd.initial_state, initial_var', states')
    /\ accepting_states' = UpdateAcceptingStates(accepting_listbox', states')
    /\ transitions' = UpdateTransitions(CurrentAfd.transitions, transitions_tree',
                                        states', alphabet')
    /\ valid' = IsValid'

\* what no handler of the editor touches
EditorFrame(name, arguments, status) ==
    /\ op' = name /\ args' = arguments /\ outcome' = status
    /\ NoEval /\ NoGen /\ NoValidate
    /\ UNCHANGED <<pc, fileVars>>

\* a handler that returns after its message box
EditorRefuses(name) ==
    /\ EditorFrame(name, <<>>, "refused")
    /\ UNCHANGED <<fields, valid, formVars>>

EditorAddStates(names_list) ==
    IF \E i \in DOMAIN names_list : ~ValidateStateName(names_list[i])
    THEN EditorRefuses("add_states")
    ELSE /\ states_listbox' = states_listbox \o ValidNames(names_list, states_listbox, 1)
         /\ UNCHANGED <<alphabet_listbox, initial_var, accepting_listbox, transitions_tree>>
         /\ UpdateAfd
         /\ EditorFrame("add_states", <<>>, "ok")

EditorRemoveState(i) ==
    /\ i \in DOMAIN states_listbox
    /\ states_listbox' = DeleteRow(states_listbox, i)
    /\ UNCHANGED <<alphabet_listbox, initial_var, accepting_listbox, transitions_tree>>
    /\ UpdateAfd
    /\ EditorFrame("remove_state", <<states_listbox[i]>>, "ok")

EditorAddAlphabet(symbols_list) ==
    IF \E i \in DOMAIN symbols_list : ~ValidateSymbol(symbols_list[i])
    THEN EditorRefuses("add_alphabet")
    ELSE /\ alphabet_listbox' = alphabet_listbox \o ValidNames(symbols_list, alphabet_listbox, 1)
         /\ UNCHANGED <<states_listbox, initial_var, accepting_listbox, transitions_tree>>
         /\ UpdateAfd
         /\ EditorFrame("add_alphabet", <<>>, "ok")

EditorRemoveAlphabet(i) ==
    /\ i \in DOMAIN alphabet_listbox
    /\ alphabet_listbox' = DeleteRow(alphabet_listbox, i)
    /\ UNCHANGED <<states_listbox, initial_var, accepting_listbox, transitions_tree>>
    /\ UpdateAfd
    /\ EditorFrame("remove_alphabet", <<alphabet_listbox[i]>>, "ok")

\* the user picks a row of initial_combo; no handler is bound to the pick
EditorSelectInitial(state) ==
    /\ state \in Range(states_listbox)
    /\ initial_var' = state
    /\ EditorFrame("select_initial", <<state>>, "ok")
    /\ UNCHANGED <<fields, valid, has_afd, states_listbox, alphabet_listbox,
                   accepting_listbox, transitions_tree>>

EditorAddAcceptingState(i) ==
    /\ i \in DOMAIN states_listbox
    /\ IF states_listbox[i] \in Range(accepting_listbox)
       THEN EditorRefuses("add_accepting_state")
       ELSE /\ accepting_listbox' = Append(accepting_listbox, states_listbox[i])
            /\ UNCHANGED <<states_listbox, alphabet_listbox, initial_var, transitions_tree>>
            /\ UpdateAfd
            /\ EditorFrame("add_accepting_state", <<states_listbox[i]>>, "ok")

EditorRemoveAcceptingState(i) ==
    /\ i \in DOMAIN accepting_listbox
    /\ accepting_listbox' = DeleteRow(accepting_listbox, i)
    /\ UNCHANGED <<states_listbox, alphabet_listbox, initial_var, transitions_tree>>
    /\ UpdateAfd
    /\ EditorFrame("remove_accepting_state", <<accepting_listbox[i]>>, "ok")

\* from_state, symbol and to_state are what from_var, symbol_var and to_var
\* hold; the handler empties the three afterwards
EditorAddTransition(from_state, symbol, to_state) ==
    IF \E i \in DOMAIN transitions_tree :
           transitions_tree[i][1] = from_state /\ transitions_tree[i][2] = symbol
    THEN EditorRefuses("add_transition")
    ELSE /\ transitions_tree' = Append(transitions_tree, <<from_state, symbol, to_state>>)
         /\ UNCHANGED <<states_listbox, alphabet_listbox, initial_var, accepting_listbox>>
         /\ UpdateAfd
         /\ EditorFrame("add_transition", <<from_state, symbol, to_state>>, "ok")

EditorRemoveTransition(i) ==
    /\ i \in DOMAIN transitions_tree
    /\ transitions_tree' = DeleteRow(transitions_tree, i)
    /\ UNCHANGED <<states_listbox, alphabet_listbox, initial_var, accepting_listbox>>
    /\ UpdateAfd
    /\ EditorFrame("remove_transition", transitions_tree[i], "ok")

\* clear_all, the question answered yes: current_afd becomes None
EditorClearAll ==
    /\ states_listbox' = <<>> /\ alphabet_listbox' = <<>>
    /\ accepting_listbox' = <<>> /\ transitions_tree' = <<>>
    /\ initial_var' = ""
    /\ has_afd' = FALSE
    /\ states' = NewAFD.states /\ alphabet' = NewAFD.alphabet
    /\ initial_state' = NewAFD.initial_state
    /\ accepting_states' = NewAFD.accepting_states
    /\ transitions' = NewAFD.transitions
    /\ valid' = FALSE
    /\ EditorFrame("clear_all", <<>>, "ok")

\* the rows (state, symbol, state), the sets iterated in the orders given
CompleteRows(states_list, symbols_list) ==
    [k \in 1..(Len(states_list) * Len(symbols_list)) |->
        LET state == states_list[((k - 1) \div Len(symbols_list)) + 1]
            symbol == symbols_list[((k - 1) % Len(symbols_list)) + 1]
        IN <<state, symbol, state>>]

\* generate_complete_afd, the question answered yes
EditorGenerateCompleteAfd(states_list, symbols_list) ==
    IF ~has_afd \/ states = {} \/ alphabet = {}
    THEN EditorRefuses("generate_complete_afd")
    ELSE /\ transitions_tree' = CompleteRows(states_list, symbols_list)
         /\ UNCHANGED <<states_listbox, alphabet_listbox, initial_var, accepting_listbox>>
         /\ UpdateAfd
         /\ EditorFrame("generate_complete_afd", <<>>, "ok")

EditorNext ==
    \/ \E names_list \in Entries(TypedStateNames) : EditorAddStates(names_list)
    \/ \E i \in DOMAIN states_listbox : EditorRemoveState(i)
    \/ \E symbols_list \in Entries(TypedSymbols) : EditorAddAlphabet(symbols_list)
    \/ \E i \in DOMAIN alphabet_listbox : EditorRemoveAlphabet(i)
    \/ \E state \in StateNames : EditorSelectInitial(state)
    \/ \E i \in DOMAIN states_listbox : EditorAddAcceptingState(i)
    \/ \E i \in DOMAIN accepting_listbox : EditorRemoveAcceptingState(i)
    \/ \E from_state \in StateNames, symbol \in EditorSymbols, to_state \in StateNames :
           EditorAddTransition(from_state, symbol, to_state)
    \/ \E i \in DOMAIN transitions_tree : EditorRemoveTransition(i)
    \/ EditorClearAll
    \/ \E states_list \in ListOfSet(states), symbols_list \in ListOfSet(alphabet) :
           EditorGenerateCompleteAfd(states_list, symbols_list)

\* the editor from start-up, its buttons pressed in any order
EditorSpec == Init /\ [][EditorNext]_vars

\* ------------------------------------------------------------- AFDSimulator
\* The console application of ui/simulator.py: has_afd says whether its
\* current_afd is set, fields are the fields of that object.  The files the
\* user may name are a few parsed JSON documents.
SimulatorSymbols == {"0"}

\* the rows (from_state, symbol, to_state) of the files
SampleRows == << <<"q0", "0", "q1">>, <<"q1", "0", "q1">> >>

\* afd_data of a file with the given lists, initial state and transitions,
\* the transitions written as a list of objects or as the old dict
FileWith(states_list, symbols_list, initial, accepting_list, encoding, rows) ==
    [states |-> states_list,
     alphabet |-> symbols_list,
     initial_state |-> initial,
     accepting_states |-> accepting_list,
     transitions |->
         [encoding |-> encoding,
          entries |->
              [i \in 1..Len(rows) |->
                  IF encoding = "list"
                  THEN [from_state |-> rows[i][1], symbol |-> rows[i][2],
                        to_state |-> rows[i][3]]
                  ELSE <<LegacyKey(rows[i][1], rows[i][2]), rows[i][3]>>]]]

\* files that load
GoodFiles ==
    {FileWith(<<"q0", "q1">>, <<"0">>, "q0", <<"q1">>, encoding, SampleRows) :
         encoding \in {"list", "map"}}
    \cup {FileWith(<<"q1">>, <<>>, None, <<>>, "list", <<>>)}

WithoutField(afd_data, field) ==
    [f \in (DOMAIN afd_data) \ {field} |-> afd_data[f]]

\* files that do not: a field is absent, a state is not registered, an old
\* key has no comma
BadFiles ==
    {WithoutField(FileWith(<<"q1">>, <<>>, None, <<>>, "list", <<>>), field) :
         field \in {"states", "alphabet", "initial_state", "accepting_states",
                    "transitions"}}
    \cup {FileWith(<<"q1">>, <<"0">>, "q0", <<>>, "list", <<>>),
          FileWith(<<"q1">>, <<"0">>, None, <<"q0">>, "list", <<>>),
          FileWith(<<"q1">>, <<"0">>, None, <<>>, "list", << <<"q1", "0", "q0">> >>),
          [FileWith(<<"q1">>, <<"0">>, None, <<>>, "map", <<>>)
              EXCEPT !.transitions.entries = << <<(<<"q", "1", "0">>), "q1">> >>]}

SimulatorFiles == GoodFiles \cup BadFiles

\* the statements of a handler that leave the simulator's own fields alone
SimulatorFrame(name, status) ==
    /\ pc = "idle"
    /\ op' = name /\ args' = <<>> /\ outcome' = status
    /\ valid' = FALSE /\ NoEval /\ NoGen /\ NoValidate
    /\ UNCHANGED <<pc, origin, edit, states_listbox, alphabet_listbox,
                   initial_var, accepting_listbox, transitions_tree>>

\* self.current_afd = afd
SetCurrentAfd(afd) ==
    /\ has_afd' = TRUE
    /\ states' = afd.states
    /\ alphabet' = afd.alphabet
    /\ initial_state' = afd.initial_state
    /\ accepting_states' = afd.accepting_states
    /\ transitions' = afd.transitions

\* create_new_afd up to its first prompt; the mutator calls that follow are
\* the mutator actions
SimulatorCreateNewAfd ==
    /\ SetCurrentAfd(NewAFD)
    /\ SimulatorFrame("create_new_afd", "ok")
    /\ UNCHANGED <<document, loaded, load_outcome>>

\* load_afd_from_file: the file named exists and parses to afd_data, or does
\* not exist; the assignment is skipped when load_from_file raises
SimulatorLoadAfdFromFile(exists, afd_data) ==
    LET r == IF exists THEN LoadFromFile(afd_data) ELSE LoadRaises("FileNotFoundError")
    IN /\ document' = afd_data
       /\ load_outcome' = r.kind
       /\ loaded' = IF r.kind = "ok" THEN {r.afd} ELSE {}
       /\ IF r.kind = "ok"
          THEN SetCurrentAfd(r.afd)
          ELSE UNCHANGED <<fields, has_afd>>
       /\ SimulatorFrame("load_afd_from_file", r.kind)

SimulatorNext ==
    \/ has_afd /\ \E state \in StateNames : AddState(state)
    \/ has_afd /\ \E symbol \in SimulatorSymbols : AddSymbol(symbol)
    \/ has_afd /\ \E state \in StateNames : SetInitialState(state)
    \/ has_afd /\ \E state \in StateNames : AddAcceptingState(state)
    \/ has_afd /\ \E from_state \in StateNames, symbol \in SimulatorSymbols,
                     to_state \in StateNames :
           AddTransition(from_state, symbol, to_state)
    \/ SimulatorCreateNewAfd
    \/ \E afd_data \in SimulatorFiles : SimulatorLoadAfdFromFile(TRUE, afd_data)
    \/ SimulatorLoadAfdFromFile(FALSE, EmptyDict)

\* the console application from start-up
SimulatorSpec == Init /\ [][SimulatorNext]_vars

\* ------------------------------------------------- validate_afd_definition
\* one entry of the errors list: its text up to the names it quotes, and the
\* names quoted
Finding(message, detail) == [message |-> message, detail |-> detail]

\* missing_transitions: the pairs without an entry, in the order the nested
\* loops over afd.states and afd.alphabet visit them
MissingTransitions(afd, states_order, alphabet_order) ==
    LET n == Len(states_order)
        k == Len(alphabet_order)
        visited_pairs == [i \in 1..(n * k) |->
                             <<states_order[((i - 1) \div k) + 1],
                               alphabet_order[((i - 1) % k) + 1]>>]
    IN SelectSeq(visited_pairs, LAMBDA pair : pair \notin DOMAIN afd.transitions)

\* the message on the missing transitions: the first five and the number of
\* the others
MissingTransitionsFinding(missing_transitions) ==
    Finding("Missing transitions",
            [shown |-> SliceTo(missing_transitions, 5),
             more |-> IF Len(missing_transitions) > 5
                      THEN Len(missing_transitions) - 5 ELSE 0])

\* a validator that returns at the first check that fails
ValidateAfdDefinitionFirstOnly(afd, states_order, alphabet_order) ==
    LET missing_transitions == MissingTransitions(afd, states_order, alphabet_order)
    IN IF afd.states = {} THEN <<Finding("No states defined", {})>>
       ELSE IF afd.alphabet = {} THEN <<Finding("No alphabet defined", {})>>
       ELSE IF afd.initial_state = None
            THEN <<Finding("No initial state defined", {})>>
       ELSE IF afd.initial_state \notin afd.states
            THEN <<Finding("Initial state is not in the set of states",
                           {afd.initial_state})>>
       ELSE IF ~(afd.accepting_states \subseteq afd.states)
            THEN <<Finding("Some accepting states are not in the set of states",
                           afd.accepting_states \ afd.states)>>
       ELSE IF missing_transitions # <<>>
            THEN <<MissingTransitionsFinding(missing_transitions)>>
       ELSE <<>>

\* validate_afd_definition(afd): the errors list; the bool returned is
\* len(errors) == 0
ValidateAfdDefinition(afd, states_order, alphabet_order) ==
    LET missing_transitions == MissingTransitions(afd, states_order, alphabet_order)
    IN (IF afd.states = {} THEN <<Finding("No states defined", {})>> ELSE <<>>)
       \o (IF afd.alphabet = {} THEN <<Finding("No alphabet defined", {})>> ELSE <<>>)
       \o (IF afd.initial_state = None
           THEN <<Finding("No initial state defined", {})>>
           ELSE IF afd.initial_state \notin afd.states
           THEN <<Finding("Initial state is not in the set of states",
                          {afd.initial_state})>>
           ELSE <<>>)
       \o (IF ~(afd.accepting_states \subseteq afd.states)
           THEN <<Finding("Some accepting states are not in the set of states",
                          afd.accepting_states \ afd.states)>>
           ELSE <<>>)
       \o (IF missing_transitions # <<>>
           THEN <<MissingTransitionsFinding(missing_transitions)>>
           ELSE <<>>)

\* is_valid, errors = validate_afd_definition(self.current_afd)
ValidateAfdDefinitionCall(states_order, alphabet_order) ==
    /\ pc = "idle"
    /\ errors' = ValidateAfdDefinition(Model, states_order, alphabet_order)
    /\ valid' = (Len(errors') = 0)
    /\ op' = "validate_afd_definition" /\ args' = <<>> /\ outcome' = "ok"
    /\ NoEval /\ NoGen /\ UNCHANGED <<fields, pc>>
    /\ UNCHANGED <<fileVars, formVars>>

\* every dict from (state, symbol) pairs to states
TransitionTables ==
    UNION {[keys -> StateNames] : keys \in SUBSET (StateNames \X Symbols)}

\* an AFD object with any values in its five attributes: they are public, and
\* the validator is written for objects the mutators did not build
ValidatorInit ==
    /\ states \in SUBSET StateNames
    /\ alphabet \in SUBSET Symbols
    /\ initial_state \in StateNames \cup {None}
    /\ accepting_states \in SUBSET StateNames
    /\ transitions \in TransitionTables
    /\ pc = "idle"
    /\ op = "__init__"
    /\ args = <<>>
    /\ outcome = "ok"
    /\ valid = FALSE
    /\ input_string = <<>>
    /\ is_accepted = FALSE
    /\ transitions_path = <<>>
    /\ error_message = <<>>
    /\ max_count = 0
    /\ alphabet_list = <<>>
    /\ queue = <<>>
    /\ visited = {}
    /\ accepted_strings = <<>>
    /\ result = <<>>
    /\ document = EmptyDict
    /\ origin = [writer |-> "none", items |-> <<>>]
    /\ edit = <<>>
    /\ loaded = {}
    /\ load_outcome = "none"
    /\ has_afd = TRUE
    /\ states_listbox = <<>>
    /\ alphabet_listbox = <<>>
    /\ initial_var = ""
    /\ accepting_listbox = <<>>
    /\ transitions_tree = <<>>
    /\ errors = <<>>

ValidatorNext ==
    \/ \E states_order \in ListOfSet(states), alphabet_order \in ListOfSet(alphabet) :
           ValidateAfdDefinitionCall(states_order, alphabet_order)
    \/ IsValidCall

\* the validator and is_valid called on any AFD object
ValidatorSpec == ValidatorInit /\ [][ValidatorNext]_vars




\* ================================================================== claims
\* the call of generate_accepted_strings has returned a list
Returned == op = "generate_accepted_strings" /\ pc = "idle" /\ outcome = "ok"

\* completeness as section 4.2 of the specification states it
Complete ==
    /\ states # {}
    /\ alphabet # {}
    /\ initial_state # None
    /\ initial_state \in states
    /\ accepting_states \subseteq states
    /\ \A s \in states, a \in alphabet : <<s, a>> \in DOMAIN transitions

\* C1: after any sequence of mutator calls, failing ones included, the
\* initial state is unset or registered, every accepting state is registered,
\* and every transition has a registered source, symbol and target.
ReferentialIntegrity ==
    /\ initial_state = None \/ initial_state \in states
    /\ accepting_states \subseteq states
    /\ \A k \in DOMAIN transitions :
           /\ k[1] \in states
           /\ k[2] \in alphabet
           /\ transitions[k] \in states

\* a failing add_transition on a model that already has an initial state, an
\* accepting state and a transition
ReferentialIntegrityWitness ==
    /\ op = "add_transition" /\ outcome = "ValueError"
    /\ initial_state # None
    /\ accepting_states # {}
    /\ DOMAIN transitions # {}

\* the call just made names a state or a symbol that is not registered
UnregisteredReference ==
    \/ /\ op' \in {"set_initial_state", "add_accepting_state"}
       /\ args'[1] \notin states
    \/ /\ op' = "add_transition"
       /\ \/ args'[1] \notin states
          \/ args'[2] \notin alphabet
          \/ args'[3] \notin states

\* C2: set_initial_state, add_accepting_state and add_transition called with
\* an unregistered state or symbol raise and leave all five fields as they
\* were; nothing is registered as a side effect.
FailedMutatorLeavesModel ==
    [][UnregisteredReference => (outcome' = "ValueError" /\ UNCHANGED fields)]_vars

\* add_transition has failed on an unregistered target alone, on a model with
\* a transition
FailedMutatorWitness ==
    /\ op = "add_transition" /\ outcome = "ValueError"
    /\ args[1] \in states /\ args[2] \in alphabet /\ args[3] \notin states
    /\ DOMAIN transitions # {}

ReachedState ==
    IF transitions_path = <<>> THEN initial_state
    ELSE transitions_path[Len(transitions_path)][3]

\* C4: on a complete model and an input over its alphabet evaluate_string
\* returns one triple per symbol; the first starts at the initial state, the
\* i-th is (current, input[i], transitions[(current, input[i])]), each starts
\* where the previous one ended, and the verdict is membership of the last
\* target in accepting_states; the empty input gives
\* (initial_state in accepting_states, []).
EvaluateFollowsTransitions ==
    op = "evaluate_string" =>
        /\ (Complete /\ \A i \in 1..Len(input_string) : input_string[i] \in alphabet)
               => outcome = "ok"
        /\ outcome = "ok" =>
            /\ Len(transitions_path) = Len(input_string)
            /\ input_string # <<>> => transitions_path[1][1] = initial_state
            /\ \A i \in 1..Len(transitions_path) :
                   /\ transitions_path[i][2] = input_string[i]
                   /\ <<transitions_path[i][1], input_string[i]>> \in DOMAIN transitions
                   /\ transitions_path[i][3] =
                          transitions[<<transitions_path[i][1], input_string[i]>>]
                   /\ i > 1 => transitions_path[i][1] = transitions_path[i - 1][3]
            /\ is_accepted <=> (ReachedState \in accepting_states)
            /\ input_string = <<>> =>
                   /\ transitions_path = <<>>
                   /\ is_accepted <=> (initial_state \in accepting_states)

\* an accepted input of two or more symbols whose path changes state
EvaluateWitness ==
    /\ op = "evaluate_string" /\ outcome = "ok"
    /\ Len(input_string) >= 2
    /\ is_accepted
    /\ \E i \in 1..Len(transitions_path) :
           transitions_path[i][1] # transitions_path[i][3]

\* w is accepted by the automaton, as evaluate_string decides it
Accepts(w) ==
    LET r == EvaluateString(w) IN ~r.raised /\ r.is_accepted

\* C5: the result holds the shortest accepted strings: when it contains a
\* string of length L, every non-empty accepted string shorter than L is in
\* it too.
ResultIsShortestAccepted ==
    Returned =>
        \A i \in 1..Len(result) :
            \A w \in StringsUpTo(alphabet, Len(result[i]) - 1) :
                (w # <<>> /\ Accepts(w)) => \E j \in 1..Len(result) : result[j] = w

LoopNeverEndsWithoutAccepting ==
    (pc = "generate" /\ accepting_states = {} /\ max_count > 0)
        => LoopCondition(queue, accepted_strings, max_count)

\* C7: every string of the result is accepted by evaluate_string.
ResultStringsAccepted ==
    Returned => \A i \in 1..Len(result) : Accepts(result[i])

\* a result of two or more strings
ResultStringsAcceptedWitness ==
    /\ Returned
    /\ Len(result) >= 2
    /\ accepting_states # states

\* C8: the result has at most max_count elements, in non-decreasing order of
\* length.
ResultBoundedAndOrdered ==
    Returned =>
        /\ Len(result) <= max_count
        /\ \A i, j \in 1..Len(result) : i < j => Len(result[i]) <= Len(result[j])

\* a result of exactly max_count >= 3 strings of more than one length
ResultBoundedAndOrderedWitness ==
    /\ Returned
    /\ max_count >= 3
    /\ Len(result) = max_count
    /\ \E i, j \in 1..Len(result) : Len(result[i]) < Len(result[j])

\* C9: no string occurs twice in the result.
ResultHasNoDuplicates ==
    Returned => \A i, j \in 1..Len(result) : result[i] = result[j] => i = j

\* a result of three or more strings, two of them of the same length
ResultHasNoDuplicatesWitness ==
    /\ Returned
    /\ Len(result) >= 3
    /\ \E i, j \in 1..Len(result) : i # j /\ Len(result[i]) = Len(result[j])

\* the symbols of Symbols in the order of Python's str comparison
SymbolOrder == <<"0", "1">>

\* sorted(alphabet)
SortedAlphabet == SelectSeq(SymbolOrder, LAMBDA a : a \in alphabet)

\* C10: the result depends on the model and the limit alone: it is the
\* sequence the search yields when the alphabet is taken in sorted order,
\* whatever order the alphabet set is iterated in.
ResultIndependentOfIterationOrder ==
    Returned =>
        LET sorted == GenerateAcceptedStrings(SortedAlphabet, max_count)
        IN sorted.returned => result = sorted.value

\* on a complete model the queue is never empty when the loop condition is
\* evaluated, so the loop ends only when max_count strings are collected
FrontierNeverExhausted == pc = "generate" => queue # <<>>

\* the automaton AFDFactory.create_binary_ending_with_one builds
BinaryEndingWithOne ==
    /\ states = {"q0", "q1"}
    /\ alphabet = {"0", "1"}
    /\ initial_state = "q0"
    /\ accepting_states = {"q1"}
    /\ DOMAIN transitions = {"q0", "q1"} \X {"0", "1"}
    /\ transitions[<<"q0", "0">>] = "q0"
    /\ transitions[<<"q0", "1">>] = "q1"
    /\ transitions[<<"q1", "0">>] = "q1"
    /\ transitions[<<"q1", "1">>] = "q1"

\* C11: on the automaton of create_binary_ending_with_one,
\* generate_accepted_strings(3) returns three strings of lengths 1, 2, 2,
\* whatever the iteration order of the alphabet.
ScenarioResultLengths ==
    (Returned /\ BinaryEndingWithOne /\ max_count = 3) =>
        [i \in 1..Len(result) |-> Len(result[i])] = <<1, 2, 2>>

\* C12: the automaton of create_binary_ending_with_one accepts an input
\* exactly when it ends in "1"; "101" is accepted along
\* (q0,1,q1),(q1,0,q1),(q1,1,q1) and "10" is rejected.
ScenarioAcceptsEndingWithOne ==
    (op = "evaluate_string" /\ outcome = "ok" /\ BinaryEndingWithOne) =>
        /\ is_accepted <=>
               (input_string # <<>> /\ input_string[Len(input_string)] = "1")
        /\ input_string = <<"1", "0", "1">> =>
               transitions_path =
                   << <<"q0", "1", "q1">>, <<"q1", "0", "q1">>, <<"q1", "1", "q1">> >>
        /\ input_string = <<"1", "0">> => ~is_accepted

\* some symbol of the input is not in the alphabet
HasUnknownSymbol(input) == \E i \in 1..Len(input) : input[i] \notin alphabet

\* C17: evaluate_string and generate_accepted_strings check their
\* preconditions before any simulation or search step: on a model that is not
\* complete both raise with no step taken, and evaluate_string on a complete
\* model raises for an unknown symbol at any position with an empty path; the
\* model is unchanged.
PreconditionsCheckedFirst ==
    [][/\ (op' = "evaluate_string" /\ (~Complete \/ HasUnknownSymbol(input_string')))
              => /\ outcome' = "ValueError"
                 /\ transitions_path' = <<>>
                 /\ UNCHANGED fields
       /\ (op' = "generate_accepted_strings" /\ pc = "idle" /\ ~Complete)
              => /\ outcome' = "ValueError"
                 /\ pc' = "idle"
                 /\ queue' = <<>> /\ visited' = {} /\ accepted_strings' = <<>>
                 /\ UNCHANGED fields]_vars

\* evaluate_string has raised on a complete model for an input whose last
\* symbol alone is unknown
PreconditionsCheckedFirstWitness ==
    /\ op = "evaluate_string" /\ outcome = "ValueError"
    /\ Complete
    /\ Len(input_string) >= 2
    /\ input_string[Len(input_string)] \notin alphabet
    /\ \A i \in 1..(Len(input_string) - 1) : input_string[i] \in alphabet

LoadedAsWritten(writer) ==
    pc = "loaded" /\ origin.writer = writer /\ edit = <<>>

\* C13: for every model built with the mutators, load_from_file on the file
\* written by save_to_file returns a model whose five fields equal the saved
\* ones; an unset initial state stays unset, an empty accepting set empty
RoundTrip ==
    LoadedAsWritten("save_to_file") => load_outcome = "ok" /\ loaded = {Model}

RoundTripWitness ==
    /\ LoadedAsWritten("save_to_file")
    /\ initial_state = None /\ accepting_states = {}
    /\ "q,1" \in states /\ "," \in alphabet
    /\ Cardinality(DOMAIN transitions) >= 2
    /\ loaded = {Model}

\* the file with the same fields as document and the transitions as the list
\* save_to_file of the core writes
ListDocument ==
    [document EXCEPT !.transitions =
        [encoding |-> "list", entries |-> TransitionsList(origin.items)]]

\* what load_from_file returns for afd_data: the exception or the model
LoadResult(afd_data) ==
    LET r == LoadFromFile(afd_data)
    IN [outcome |-> r.kind, model |-> IF r.kind = "ok" THEN {r.afd} ELSE {}]

\* C14: the file with the old "from,symbol" keys and the file with the list
\* of transitions of the same model load to identical models, whatever the
\* registered state names and symbols
LegacyDecodeEquivalence ==
    LoadedAsWritten("legacy_save_to_file") =>
        LoadResult(ListDocument) = [outcome |-> load_outcome, model |-> loaded]

\* C15: a file whose initial_state is null, or that has no initial_state
\* field, loads to a model with initial_state unset and every other field
\* as written
InitialStateNullOrAbsent ==
    /\ pc = "loaded" /\ origin.writer = "save_to_file"
    /\ \/ edit = <<>> /\ document.initial_state = None
       \/ edit = <<"remove_field", "initial_state">>

LoadSkipsInitialState ==
    InitialStateNullOrAbsent =>
        /\ load_outcome = "ok"
        /\ loaded = {[Model EXCEPT !.initial_state = None]}

\* a required top-level field is absent, or an old transition key has no comma
Malformed ==
    /\ pc = "loaded"
    /\ \/ \E field \in {"states", "alphabet", "accepting_states", "transitions"} :
             edit = <<"remove_field", field>>
       \/ /\ Len(edit) = 2 /\ edit[1] = "strip_comma"
          /\ RFind(document.transitions.entries[edit[2]][1], ",") = 0

\* C16: loading a malformed file fails with the exception load_from_file
\* raises for a bad format, ValueError, and returns no model
MalformedRaisesFormatError ==
    Malformed => load_outcome = "ValueError" /\ loaded = {}

\* --------------------------------------------------- claims on the editor
\* state s takes part in the transition from key to target
References(key, target, s) == key[1] = s \/ target = s

\* remove_state has run on a row named s and s is no longer a state of the
\* edited model
RemovesState(s) ==
    /\ op' = "remove_state" /\ args' = <<s>>
    /\ s \in states /\ s \notin states'

\* C19: after remove_state removes state s the edited model has no
\* transition from or to s and s is not accepting, and every transition and
\* accepting state that does not involve s is still there
CascadingDelete ==
    [][\A s \in StateNames : RemovesState(s) =>
          /\ \A key \in DOMAIN transitions' : ~References(key, transitions'[key], s)
          /\ s \notin accepting_states'
          /\ \A key \in DOMAIN transitions : ~References(key, transitions[key], s) =>
                 key \in DOMAIN transitions' /\ transitions'[key] = transitions[key]
          /\ accepting_states \ {s} \subseteq accepting_states']_vars

\* remove_state has removed a state that rows of the tree and of the
\* accepting list still name, and a transition of another state is kept
CascadingDeleteWitness ==
    /\ op = "remove_state" /\ args[1] \notin states
    /\ \E i \in DOMAIN transitions_tree :
           transitions_tree[i][1] = args[1] \/ transitions_tree[i][3] = args[1]
    /\ args[1] \in Range(accepting_listbox)
    /\ transitions # EmptyDict /\ accepting_states # {}

\* is_valid has just been computed for the edited model
SummaryShown == has_afd

\* C20 as stated: is_valid is true iff every (state, symbol) pair has a
\* transition, the initial state is a state and the accepting states are
\* states, automata with an empty alphabet included
IsValidIffTotalAndReferencesHold ==
    SummaryShown =>
        (valid <=> /\ \A s \in states, a \in alphabet : <<s, a>> \in DOMAIN transitions
                   /\ initial_state \in states
                   /\ accepting_states \subseteq states)

\* C20: is_valid is true iff the alphabet is not empty, every (state, symbol)
\* pair has a transition, the initial state is a state and the accepting
\* states are states; it is false for every automaton with an empty alphabet
IsValidIffTotalOverNonEmptyAlphabet ==
    SummaryShown =>
        /\ valid <=> /\ alphabet # {}
                     /\ \A s \in states, a \in alphabet : <<s, a>> \in DOMAIN transitions
                     /\ initial_state \in states
                     /\ accepting_states \subseteq states
        /\ alphabet = {} => ~valid

\* the editor shows is_valid false for an automaton with two states, a
\* registered initial state and no symbol
IsValidEmptyAlphabetWitness ==
    /\ SummaryShown /\ ~valid
    /\ alphabet = {} /\ Cardinality(states) = 2
    /\ initial_state \in states /\ accepting_states # {}

\* ------------------------------------------ further claims on the AFD class
\* evaluate_string has returned a verdict and a path
Evaluated == op = "evaluate_string" /\ outcome = "ok"

\* C22: evaluate_string is prefix-consistent: on a complete model and an
\* input s over its alphabet, for every k from 0 to len(s) the first k triples
\* of the path of s are the whole path of s[:k]
PrefixConsistent ==
    Evaluated =>
        \A k \in 0..Len(input_string) :
            LET r == EvaluateString(SubSeq(input_string, 1, k))
            IN /\ ~r.raised
               /\ r.transitions_path = SubSeq(transitions_path, 1, k)

\* an input of MaxLen symbols has been evaluated and its path changes state
PrefixConsistentWitness ==
    /\ Evaluated /\ Len(input_string) = MaxLen
    /\ \E i, j \in 1..Len(transitions_path) : transitions_path[i] # transitions_path[j]

\* a successful add_transition(f, a, t1) is followed by a successful
\* add_transition(f, a, t2)
AddedTwice ==
    /\ op = "add_transition" /\ outcome = "ok"
    /\ op' = "add_transition" /\ outcome' = "ok"
    /\ args'[1] = args[1] /\ args'[2] = args[2]

StateAfter(w) ==
    LET path == Simulate(w, 1, initial_state, <<>>).transitions_path
    IN IF path = <<>> THEN initial_state ELSE path[Len(path)][3]

\* no two distinct strings of lst have the same length and lead to the same state
OnePerStateAndLength(lst) ==
    \A i, j \in 1..Len(lst) :
        (lst[i] # lst[j] /\ Len(lst[i]) = Len(lst[j])) =>
            StateAfter(lst[i]) # StateAfter(lst[j])

LoopErrorUnreachable ==
    op = "evaluate_string" =>
        /\ outcome = "ValueError" =>
               \/ error_message = NotValidError.message
               \/ \E symbol \in Symbols : error_message = UnknownSymbolError(symbol).message
        /\ outcome = "ok" =>
               \A i \in 1..Len(transitions_path) :
                   transitions_path[i][1] \in states /\ transitions_path[i][3] \in states

\* the loop has run MaxLen times on a model with two states
LoopErrorUnreachableWitness ==
    /\ Evaluated /\ Len(transitions_path) = MaxLen
    /\ Cardinality(states) = 2
    /\ transitions_path[1][1] # transitions_path[MaxLen][3]

\* ------------------------------------------------ claims on the simulator
\* the model afd_data describes: its lists as sets, its transitions as a dict
DescribedBy(afd_data, afd) ==
    LET entries == afd_data.transitions.entries
        Describes(entry, key) ==
            IF afd_data.transitions.encoding = "list"
            THEN /\ entry.from_state = key[1] /\ entry.symbol = key[2]
                 /\ entry.to_state = afd.transitions[key]
            ELSE /\ entry[1] = LegacyKey(key[1], key[2])
                 /\ entry[2] = afd.transitions[key]
    IN /\ afd.states = Range(afd_data.states)
       /\ afd.alphabet = Range(afd_data.alphabet)
       /\ afd.initial_state = afd_data.initial_state
       /\ afd.accepting_states = Range(afd_data.accepting_states)
       /\ \A key \in DOMAIN afd.transitions :
              \E i \in DOMAIN entries : Describes(entries[i], key)
       /\ \A i \in DOMAIN entries :
              \E key \in DOMAIN afd.transitions : Describes(entries[i], key)

\* C25: a successful load and create_new_afd replace the current model as a
\* whole, nothing of the previous model being left in the new one, and a
\* load that fails (no file, a malformed file, an unregistered reference)
\* leaves the current model and each of its fields as they were
ReplacedWholesale ==
    [][/\ (op' = "load_afd_from_file" /\ outcome' = "ok") =>
              has_afd' /\ DescribedBy(document', Model')
       /\ (op' = "load_afd_from_file" /\ outcome' # "ok") =>
              UNCHANGED <<fields, has_afd>>
       /\ op' = "create_new_afd" => has_afd' /\ Model' = NewAFD]_vars

\* a load has failed on a file that names other states than the current
\* model, which has every field set
ReplacedWholesaleWitness ==
    /\ op = "load_afd_from_file" /\ outcome = "ValueError"
    /\ has_afd /\ states = {"q0"} /\ initial_state = "q0"
    /\ accepting_states # {} /\ transitions # EmptyDict
    /\ Range(document.states) # states

\* ---------------------------------------------- claims on the old codec
\* C29: for every model built with the mutators of src/afd.py, its
\* load_from_file on the file its save_to_file wrote succeeds and returns a
\* model whose five fields equal the saved ones, also when the initial state
\* is unset and when a state name holds a comma
LegacyRoundTrip ==
    (pc = "loaded" /\ op = "legacy_load_from_file"
        /\ origin.writer = "legacy_save_to_file")
        => load_outcome = "ok" /\ loaded = {Model}

\* ------------------------------------------- further claims on the editor
\* C26: after any sequence of editor operations, each followed by update_afd,
\* the initial_state of the edited model is unset or one of its states; in
\* particular, once the state that was initial is removed, initial_state no
\* longer names it
EditedInitialStateUnsetOrMember ==
    has_afd => (initial_state = None \/ initial_state \in states)

\* the edited model has no transition from or to s and s is not accepting
Fresh(s) ==
    /\ s \notin accepting_states'
    /\ \A key \in DOMAIN transitions' : key[1] # s /\ transitions'[key] # s

\* C30: a state that remove_state took out of the edited model and that
\* add_states puts back comes back with no transition from it or to it and
\* not accepting: such entries are there again only once the user has added
\* them again
ReAddedStateIsFresh ==
    [][\A s \in StateNames :
           (/\ op = "remove_state" /\ args = <<s>> /\ s \notin states
            /\ op' = "add_states" /\ s \in states')
               => Fresh(s)]_vars

\* ---------------------------------------------- claims on the validator
\* the errors list holds a finding with this text
Reports(message) == \E i \in DOMAIN errors : errors[i].message = message

\* C21: validate_afd_definition runs every check whatever the others found
\* and agrees with is_valid: its list holds a finding for each violated check
\* among no states, no alphabet, initial state unset, initial state not a
\* state, accepting states outside the states, missing transitions, and no
\* finding for a check that holds; the list is empty, and the bool returned
\* true, exactly when is_valid returns true
ValidatorAgreesWithIsValid ==
    op = "validate_afd_definition" =>
        /\ Reports("No states defined") <=> (states = {})
        /\ Reports("No alphabet defined") <=> (alphabet = {})
        /\ Reports("No initial state defined") <=> (initial_state = None)
        /\ Reports("Initial state is not in the set of states")
               <=> (initial_state # None /\ initial_state \notin states)
        /\ Reports("Some accepting states are not in the set of states")
               <=> ~(accepting_states \subseteq states)
        /\ Reports("Missing transitions")
               <=> (\E state \in states, symbol \in alphabet :
                        <<state, symbol>> \notin DOMAIN transitions)
        /\ (errors = <<>>) <=> IsValid
        /\ valid <=> IsValid

\* the validator has run on a model with three violated checks at once
ValidatorAgreesWithIsValidWitness ==
    /\ op = "validate_afd_definition"
    /\ states # {} /\ alphabet # {}
    /\ initial_state # None /\ initial_state \notin states
    /\ ~(accepting_states \subseteq states)
    /\ \E state \in states, symbol \in alphabet :
           <<state, symbol>> \notin DOMAIN transitions
    /\ Len(errors) = 3

====
